---------------------------- MODULE Spec2Model ----------------------------
(***************************************************************************)
(* A model of the red-black tree of src/bst/rb.go (package bst).           *)
(*                                                                         *)
(* The heap of nodes is a record of functions over node identities, one    *)
(* function per field of the node struct; the RBTree struct is the fields  *)
(* root and len of the same record.  A nil pointer is Nil.  Dereferencing  *)
(* a nil pointer is a Go run-time panic: the operation stops where it is,  *)
(* the record keeps what was written until then, and its field panic names *)
(* the source line of the dereference.                                     *)
(*                                                                         *)
(* Four programs run on this tree.  Spec: a client calling Insert, Delete, *)
(* Exists and GetValues.  SpecInsert: the same without Delete, on larger   *)
(* trees.  SpecFixInsert: Insert with the loop of fixInsert taken one      *)
(* iteration at a time.  SpecRotate: rotateLeft and rotateRight called on  *)
(* their own.  The older version of the tree, src/unnamed/part_000, is     *)
(* modelled next to the current one for the comparison of their Inserts.   *)
(***************************************************************************)
EXTENDS Integers, Sequences, FiniteSets

\* Bounds of the model: how many nodes may be allocated at once (the trees
\* that Inserts alone build grow to this size), how many nodes a tree may hold
\* when Deletes are mixed in, and the largest value stored (values are
\* 1..MaxVal).
MaxNodes == 12
MaxLive == 5
MaxVal == 2

\* The largest tree the rotations are applied to when they are called on
\* their own.
MaxRot == 4

\* src/bst/rb.go:10-11
black == 0
red == 1

Nil == 0
Nodes == 1..MaxNodes
Vals == 1..MaxVal

NoPanic == "none"
ErrValueDoesNotExist == "ErrValueDoesNotExist"

VARIABLES
    rb,      \* the tree: root, len and the fields of every node
    op,      \* the public method that returned (or panicked) last
    arg,     \* its argument (0 when it takes none)
    ret,     \* what it returned
    ref,     \* reference multiset: ref[v] counts Insert(v) minus successful Delete(v)
    del,     \* the local variables of the last call, when it was a Delete
    cur      \* the current node nd of a fixInsert loop in progress, else Nil

vars == <<rb, op, arg, ret, ref, del, cur>>

-----------------------------------------------------------------------------
(* The node struct and nil-safe colour *)

\* NewRBTree: &RBTree[T]{} has a nil root and len 0; no node is allocated.
NewRBTree ==
    [root   |-> Nil,
     len    |-> 0,
     nodes  |-> {},
     left   |-> [n \in Nodes |-> Nil],
     right  |-> [n \in Nodes |-> Nil],
     parent |-> [n \in Nodes |-> Nil],
     clr    |-> [n \in Nodes |-> black],
     value  |-> [n \in Nodes |-> 0],
     panic  |-> NoPanic]

\* A nil pointer dereference at the given source line.
Panic(t, site) == [t EXCEPT !.panic = site]

Panicked(t) == t.panic # NoPanic

\* func (nd *node[T]) color(): nil pointers are considered black.
color(t, nd) == IF nd = Nil THEN black ELSE t.clr[nd]

\* Sequencing: the value of e, computed once, handed to the rest F of the
\* statements.
Then(e, F(_)) == CHOOSE r \in {F(x) : x \in {e}} : TRUE

\* &node[T]{value: val}: a fresh node, all other fields zero.
NewNode(t) == CHOOSE n \in Nodes \ t.nodes : \A m \in Nodes \ t.nodes : n <= m


-----------------------------------------------------------------------------
(* Search helpers *)

\* findNode with the two directions exchanged.
RECURSIVE findFrom_Swapped(_, _, _)
findFrom_Swapped(t, nd, val) ==
    IF nd = Nil THEN Nil
    ELSE IF t.value[nd] = val THEN nd
    ELSE IF t.value[nd] < val THEN findFrom_Swapped(t, t.left[nd], val)
    ELSE findFrom_Swapped(t, t.right[nd], val)

\* findNode: descend from the root; equal -> found, smaller -> right, else left.
RECURSIVE findFrom(_, _, _)
findFrom(t, nd, val) ==
    IF nd = Nil THEN Nil
    ELSE IF t.value[nd] = val THEN nd
    ELSE IF t.value[nd] < val THEN findFrom(t, t.right[nd], val)
    ELSE findFrom(t, t.left[nd], val)

findNode(t, val) == findFrom(t, t.root, val)

\* getMin: follow left links from nd (nd is not nil at its only call).
RECURSIVE getMin(_, _)
getMin(t, nd) == IF t.left[nd] # Nil THEN getMin(t, t.left[nd]) ELSE nd

-----------------------------------------------------------------------------
(* replace and the rotations *)

\* replace(nd, sub): nd's parent (or the root field) points at sub; sub, when
\* present, gets nd's parent.  nd's own links are not touched.
replace(t, nd, sub) ==
    LET p  == t.parent[nd]
        t1 == IF p = Nil THEN [t EXCEPT !.root = sub]
              ELSE IF nd = t.left[p] THEN [t EXCEPT !.left[p] = sub]
              ELSE [t EXCEPT !.right[p] = sub]
    IN  IF sub # Nil THEN [t1 EXCEPT !.parent[sub] = p] ELSE t1

\* rotateLeft without lines 250-252: the subtree handed over keeps its old
\* parent.
rotateLeft_NoInnerParent(t, nd) ==
    IF nd = Nil \/ t.right[nd] = Nil THEN t
    ELSE LET r == t.right[nd] IN
         Then(replace(t, nd, r), LAMBDA t1 :
         Then([t1 EXCEPT !.parent[nd] = r, !.right[nd] = t1.left[r]], LAMBDA t2 :
         [t2 EXCEPT !.left[r] = nd]))

rotateLeft(t, nd) ==
    IF nd = Nil \/ t.right[nd] = Nil THEN t
    ELSE LET r == t.right[nd] IN
         Then(replace(t, nd, r), LAMBDA t1 :
         Then([t1 EXCEPT !.parent[nd] = r, !.right[nd] = t1.left[r]], LAMBDA t2 :
         Then(IF t2.right[nd] # Nil
              THEN [t2 EXCEPT !.parent[t2.right[nd]] = nd] ELSE t2, LAMBDA t3 :
         [t3 EXCEPT !.left[r] = nd])))

rotateRight(t, nd) ==
    IF nd = Nil \/ t.left[nd] = Nil THEN t
    ELSE LET l == t.left[nd] IN
         Then(replace(t, nd, l), LAMBDA t1 :
         Then([t1 EXCEPT !.parent[nd] = l, !.left[nd] = t1.right[l]], LAMBDA t2 :
         Then(IF t2.left[nd] # Nil
              THEN [t2 EXCEPT !.parent[t2.left[nd]] = nd] ELSE t2, LAMBDA t3 :
         [t3 EXCEPT !.right[l] = nd])))

-----------------------------------------------------------------------------
(* Insert and insert-fixup *)

\* The outer case without the recolouring of the grandparent (line 307
\* missing).
fixInsertOuterLeft_NoRecolour(t, nd) ==
    IF t.parent[nd] = Nil THEN Panic(t, "rb.go:306")
    ELSE Then([t EXCEPT !.clr[t.parent[nd]] = black], LAMBDA t1 :
         IF t1.parent[t1.parent[nd]] = Nil THEN Panic(t1, "rb.go:307")
         ELSE rotateRight(t1, t1.parent[t1.parent[nd]]))

\* Lines 303-309 (p is the left child): nd.parent.clr = black,
\* nd.parent.parent.clr = red, rotateRight(nd.parent.parent).
fixInsertOuterLeft(t, nd) ==
    IF t.parent[nd] = Nil THEN Panic(t, "rb.go:306")
    ELSE Then([t EXCEPT !.clr[t.parent[nd]] = black], LAMBDA t1 :
         IF t1.parent[t1.parent[nd]] = Nil THEN Panic(t1, "rb.go:307")
         ELSE Then([t1 EXCEPT !.clr[t1.parent[t1.parent[nd]]] = red], LAMBDA t2 :
              rotateRight(t2, t2.parent[t2.parent[nd]])))

\* Lines 329-335 (p is the right child), the mirror image.
fixInsertOuterRight(t, nd) ==
    IF t.parent[nd] = Nil THEN Panic(t, "rb.go:332")
    ELSE Then([t EXCEPT !.clr[t.parent[nd]] = black], LAMBDA t1 :
         IF t1.parent[t1.parent[nd]] = Nil THEN Panic(t1, "rb.go:333")
         ELSE Then([t1 EXCEPT !.clr[t1.parent[t1.parent[nd]]] = red], LAMBDA t2 :
              rotateLeft(t2, t2.parent[t2.parent[nd]])))

\* Lines 298-301 and 324-327: the inner child becomes the outer one.  The
\* result is the tree and the new current node.
fixInsertInnerLeft(t, nd, p) ==
    IF nd = t.right[p] THEN [t |-> rotateLeft(t, p), nd |-> p]
    ELSE [t |-> t, nd |-> nd]

fixInsertInnerRight(t, nd, p) ==
    IF nd = t.left[p] THEN [t |-> rotateRight(t, p), nd |-> p]
    ELSE [t |-> t, nd |-> nd]

\* The iteration without nd = p.parent in the uncle-red case (lines 294 and
\* 320 missing).
fixInsertStep_StayOnRedUncle(t, nd) ==
    LET p == t.parent[nd] IN
    IF t.parent[p] = Nil THEN [t |-> Panic(t, "rb.go:285"), nd |-> nd]
    ELSE LET g == t.parent[p] IN
      IF p = t.left[g] THEN
        LET psib == t.right[g] IN
        IF color(t, psib) = red
        THEN [t  |-> [t EXCEPT !.clr[psib] = black, !.clr[p] = black, !.clr[g] = red],
              nd |-> nd]
        ELSE Then(fixInsertInnerLeft(t, nd, p), LAMBDA s :
             [t |-> fixInsertOuterLeft(s.t, s.nd), nd |-> s.nd])
      ELSE
        LET psib == t.left[g] IN
        IF color(t, psib) = red
        THEN [t  |-> [t EXCEPT !.clr[psib] = black, !.clr[p] = black, !.clr[g] = red],
              nd |-> nd]
        ELSE Then(fixInsertInnerRight(t, nd, p), LAMBDA s :
             [t |-> fixInsertOuterRight(s.t, s.nd), nd |-> s.nd])

\* One iteration of the loop of fixInsert, entered with nd.parent red (so
\* nd.parent is not nil).  The result is the tree and the new current node.
fixInsertStep(t, nd) ==
    LET p == t.parent[nd] IN
    IF t.parent[p] = Nil THEN [t |-> Panic(t, "rb.go:285"), nd |-> nd]
    ELSE LET g == t.parent[p] IN
      IF p = t.left[g] THEN
        LET psib == t.right[g] IN
        IF color(t, psib) = red
        THEN [t  |-> [t EXCEPT !.clr[psib] = black, !.clr[p] = black, !.clr[g] = red],
              nd |-> g]
        ELSE Then(fixInsertInnerLeft(t, nd, p), LAMBDA s :
             [t |-> fixInsertOuterLeft(s.t, s.nd), nd |-> s.nd])
      ELSE
        LET psib == t.left[g] IN
        IF color(t, psib) = red
        THEN [t  |-> [t EXCEPT !.clr[psib] = black, !.clr[p] = black, !.clr[g] = red],
              nd |-> g]
        ELSE Then(fixInsertInnerRight(t, nd, p), LAMBDA s :
             [t |-> fixInsertOuterRight(s.t, s.nd), nd |-> s.nd])

\* for nd.parent.color() == red { ... }
RECURSIVE fixInsertLoop(_, _)
fixInsertLoop(t, nd) ==
    IF Panicked(t) THEN t
    ELSE IF color(t, t.parent[nd]) = red
         THEN Then(fixInsertStep(t, nd), LAMBDA s : fixInsertLoop(s.t, s.nd))
         ELSE t

\* rb.root.clr = black, the last statement of both fix-ups.
blackenRoot(t, site) ==
    IF t.root = Nil THEN Panic(t, site) ELSE [t EXCEPT !.clr[t.root] = black]

fixInsert(t, nd) ==
    IF color(t, nd) # red THEN t
    ELSE Then(fixInsertLoop(t, nd), LAMBDA t1 :
         IF Panicked(t1) THEN t1 ELSE blackenRoot(t1, "rb.go:341"))

\* The descent of Insert: the last node visited, going left on val <= value.
RECURSIVE insertParent(_, _, _, _)
insertParent(t, nd, p, val) ==
    IF nd = Nil THEN p
    ELSE IF val <= t.value[nd] THEN insertParent(t, t.left[nd], nd, val)
    ELSE insertParent(t, t.right[nd], nd, val)

\* Lines 79-89: the new node is linked red under p and fixInsert runs.
insertAttach(t, newNd, p, val) ==
    Then([t EXCEPT !.clr[newNd] = red, !.parent[newNd] = p], LAMBDA t2 :
    Then(IF val <= t2.value[p]
         THEN [t2 EXCEPT !.left[p] = newNd]
         ELSE [t2 EXCEPT !.right[p] = newNd], LAMBDA t3 :
    fixInsert(t3, newNd)))

\* Insert that merges: a value already stored is not inserted again.
InsertOp_Merge(t, val) ==
    LET p     == insertParent(t, t.root, Nil, val)
        newNd == NewNode(t)
    IN  IF findNode(t, val) # Nil THEN t
        ELSE Then([t EXCEPT !.len = @ + 1, !.nodes = @ \cup {newNd},
                            !.value[newNd] = val], LAMBDA t1 :
             IF p = Nil
             THEN [t1 EXCEPT !.clr[newNd] = black, !.root = newNd]
             ELSE insertAttach(t1, newNd, p, val))

\* Lines 53-86 of Insert, up to the call of fixInsert: the tree with the new
\* node linked in, and the node handed to fixInsert (nil for a first node,
\* which returns at line 76).
insertLink(t, val) ==
    LET p     == insertParent(t, t.root, Nil, val)
        newNd == NewNode(t)
    IN  Then([t EXCEPT !.len = @ + 1, !.nodes = @ \cup {newNd},
                       !.value[newNd] = val], LAMBDA t1 :
        IF p = Nil
        THEN [t |-> [t1 EXCEPT !.clr[newNd] = black, !.root = newNd], nd |-> Nil]
        ELSE Then([t1 EXCEPT !.clr[newNd] = red, !.parent[newNd] = p], LAMBDA t2 :
             [t  |-> IF val <= t2.value[p]
                     THEN [t2 EXCEPT !.left[p] = newNd]
                     ELSE [t2 EXCEPT !.right[p] = newNd],
              nd |-> newNd]))

InsertOp(t, val) ==
    LET p     == insertParent(t, t.root, Nil, val)
        newNd == NewNode(t)
    IN  Then([t EXCEPT !.len = @ + 1, !.nodes = @ \cup {newNd},
                       !.value[newNd] = val], LAMBDA t1 :
        IF p = Nil
        THEN [t1 EXCEPT !.clr[newNd] = black, !.root = newNd]
        ELSE insertAttach(t1, newNd, p, val))

-----------------------------------------------------------------------------
(* The older version of the tree, src/unnamed/part_000.  Its rotations        *)
(* rewire the parent themselves and colour a new root black; its fixInsert    *)
(* and Insert have the text of src/bst/rb.go and call these rotations; its    *)
(* Exists searches inline; its Delete is a stub.                               *)

\* rotateLeftOld with rb.root.clr = black before rb.root = r: the node
\* rotated down is coloured, not the one promoted.
rotateLeftOld_BlackenOldRoot(t, nd) ==
    IF nd = Nil \/ t.right[nd] = Nil THEN t
    ELSE LET p == t.parent[nd]
             r == t.right[nd]
         IN
         Then([t EXCEPT !.parent[r] = p], LAMBDA t0 :
         Then(IF p = Nil THEN [t0 EXCEPT !.clr[t0.root] = black, !.root = r]
              ELSE IF nd = t0.left[p] THEN [t0 EXCEPT !.left[p] = r]
              ELSE [t0 EXCEPT !.right[p] = r], LAMBDA t1 :
         Then([t1 EXCEPT !.parent[nd] = r, !.right[nd] = t1.left[r]], LAMBDA t2 :
         Then(IF t2.right[nd] # Nil
              THEN [t2 EXCEPT !.parent[t2.right[nd]] = nd] ELSE t2, LAMBDA t3 :
         [t3 EXCEPT !.left[r] = nd]))))

\* part_000, lines 154-178.
rotateLeftOld(t, nd) ==
    IF nd = Nil \/ t.right[nd] = Nil THEN t
    ELSE LET p == t.parent[nd]
             r == t.right[nd]
         IN
         Then([t EXCEPT !.parent[r] = p], LAMBDA t0 :
         Then(IF p = Nil THEN [t0 EXCEPT !.root = r, !.clr[r] = black]
              ELSE IF nd = t0.left[p] THEN [t0 EXCEPT !.left[p] = r]
              ELSE [t0 EXCEPT !.right[p] = r], LAMBDA t1 :
         Then([t1 EXCEPT !.parent[nd] = r, !.right[nd] = t1.left[r]], LAMBDA t2 :
         Then(IF t2.right[nd] # Nil
              THEN [t2 EXCEPT !.parent[t2.right[nd]] = nd] ELSE t2, LAMBDA t3 :
         [t3 EXCEPT !.left[r] = nd]))))

\* part_000, lines 182-206.
rotateRightOld(t, nd) ==
    IF nd = Nil \/ t.left[nd] = Nil THEN t
    ELSE LET p == t.parent[nd]
             l == t.left[nd]
         IN
         Then([t EXCEPT !.parent[l] = p], LAMBDA t0 :
         Then(IF p = Nil THEN [t0 EXCEPT !.root = l, !.clr[l] = black]
              ELSE IF nd = t0.left[p] THEN [t0 EXCEPT !.left[p] = l]
              ELSE [t0 EXCEPT !.right[p] = l], LAMBDA t1 :
         Then([t1 EXCEPT !.parent[nd] = l, !.left[nd] = t1.right[l]], LAMBDA t2 :
         Then(IF t2.left[nd] # Nil
              THEN [t2 EXCEPT !.parent[t2.left[nd]] = nd] ELSE t2, LAMBDA t3 :
         [t3 EXCEPT !.right[l] = nd]))))

\* part_000, lines 237-243 (p is the left child).
fixInsertOuterLeftOld(t, nd) ==
    IF t.parent[nd] = Nil THEN Panic(t, "part_000:240")
    ELSE Then([t EXCEPT !.clr[t.parent[nd]] = black], LAMBDA t1 :
         IF t1.parent[t1.parent[nd]] = Nil THEN Panic(t1, "part_000:241")
         ELSE Then([t1 EXCEPT !.clr[t1.parent[t1.parent[nd]]] = red], LAMBDA t2 :
              rotateRightOld(t2, t2.parent[t2.parent[nd]])))

\* part_000, lines 263-269 (p is the right child).
fixInsertOuterRightOld(t, nd) ==
    IF t.parent[nd] = Nil THEN Panic(t, "part_000:266")
    ELSE Then([t EXCEPT !.clr[t.parent[nd]] = black], LAMBDA t1 :
         IF t1.parent[t1.parent[nd]] = Nil THEN Panic(t1, "part_000:267")
         ELSE Then([t1 EXCEPT !.clr[t1.parent[t1.parent[nd]]] = red], LAMBDA t2 :
              rotateLeftOld(t2, t2.parent[t2.parent[nd]])))

\* part_000, lines 232-235 and 258-261.
fixInsertInnerLeftOld(t, nd, p) ==
    IF nd = t.right[p] THEN [t |-> rotateLeftOld(t, p), nd |-> p]
    ELSE [t |-> t, nd |-> nd]

fixInsertInnerRightOld(t, nd, p) ==
    IF nd = t.left[p] THEN [t |-> rotateRightOld(t, p), nd |-> p]
    ELSE [t |-> t, nd |-> nd]

\* part_000, lines 217-271: one iteration of the loop of fixInsert.
fixInsertStepOld(t, nd) ==
    LET p == t.parent[nd] IN
    IF t.parent[p] = Nil THEN [t |-> Panic(t, "part_000:219"), nd |-> nd]
    ELSE LET g == t.parent[p] IN
      IF p = t.left[g] THEN
        LET psib == t.right[g] IN
        IF color(t, psib) = red
        THEN [t  |-> [t EXCEPT !.clr[psib] = black, !.clr[p] = black, !.clr[g] = red],
              nd |-> g]
        ELSE Then(fixInsertInnerLeftOld(t, nd, p), LAMBDA s :
             [t |-> fixInsertOuterLeftOld(s.t, s.nd), nd |-> s.nd])
      ELSE
        LET psib == t.left[g] IN
        IF color(t, psib) = red
        THEN [t  |-> [t EXCEPT !.clr[psib] = black, !.clr[p] = black, !.clr[g] = red],
              nd |-> g]
        ELSE Then(fixInsertInnerRightOld(t, nd, p), LAMBDA s :
             [t |-> fixInsertOuterRightOld(s.t, s.nd), nd |-> s.nd])

RECURSIVE fixInsertLoopOld(_, _)
fixInsertLoopOld(t, nd) ==
    IF Panicked(t) THEN t
    ELSE IF color(t, t.parent[nd]) = red
         THEN Then(fixInsertStepOld(t, nd), LAMBDA s : fixInsertLoopOld(s.t, s.nd))
         ELSE t

\* part_000, lines 211-276.
fixInsertOld(t, nd) ==
    IF color(t, nd) # red THEN t
    ELSE Then(fixInsertLoopOld(t, nd), LAMBDA t1 :
         IF Panicked(t1) THEN t1 ELSE blackenRoot(t1, "part_000:275"))

\* part_000, lines 71-81.
insertAttachOld(t, newNd, p, val) ==
    Then([t EXCEPT !.clr[newNd] = red, !.parent[newNd] = p], LAMBDA t2 :
    Then(IF val <= t2.value[p]
         THEN [t2 EXCEPT !.left[p] = newNd]
         ELSE [t2 EXCEPT !.right[p] = newNd], LAMBDA t3 :
    fixInsertOld(t3, newNd)))

\* part_000, lines 45-82.
InsertOpOld(t, val) ==
    LET p     == insertParent(t, t.root, Nil, val)
        newNd == NewNode(t)
    IN  Then([t EXCEPT !.len = @ + 1, !.nodes = @ \cup {newNd},
                       !.value[newNd] = val], LAMBDA t1 :
        IF p = Nil
        THEN [t1 EXCEPT !.clr[newNd] = black, !.root = newNd]
        ELSE insertAttachOld(t1, newNd, p, val))

\* part_000, lines 86-100: equal -> true, greater -> right, else left.
RECURSIVE existsFromOld(_, _, _)
existsFromOld(t, nd, val) ==
    IF nd = Nil THEN FALSE
    ELSE IF val = t.value[nd] THEN TRUE
    ELSE IF val > t.value[nd] THEN existsFromOld(t, t.right[nd], val)
    ELSE existsFromOld(t, t.left[nd], val)

ExistsOpOld(t, val) == existsFromOld(t, t.root, val)

-----------------------------------------------------------------------------
(* Delete and delete-fixup *)

\* Lines 375-379: the far child of the sibling is red (nd is a left child).
\* The result is the tree and the new current node, rb.root.
fixDeleteFarLeft(t, nd, sib) ==
    IF sib = Nil THEN [t |-> Panic(t, "rb.go:375"), nd |-> nd]
    ELSE Then([t EXCEPT !.clr[sib] = t.clr[t.parent[nd]]], LAMBDA t1 :
         Then([t1 EXCEPT !.clr[t1.parent[nd]] = black], LAMBDA t2 :
         IF t2.right[sib] = Nil THEN [t |-> Panic(t2, "rb.go:377"), nd |-> nd]
         ELSE Then([t2 EXCEPT !.clr[t2.right[sib]] = black], LAMBDA t3 :
              Then(rotateLeft(t3, t3.parent[nd]), LAMBDA t4 :
              [t |-> t4, nd |-> t4.root]))))

\* Lines 407-411: the mirror image (nd is not a left child).
fixDeleteFarRight(t, nd, sib) ==
    IF sib = Nil THEN [t |-> Panic(t, "rb.go:407"), nd |-> nd]
    ELSE Then([t EXCEPT !.clr[sib] = t.clr[t.parent[nd]]], LAMBDA t1 :
         Then([t1 EXCEPT !.clr[t1.parent[nd]] = black], LAMBDA t2 :
         IF t2.left[sib] = Nil THEN [t |-> Panic(t2, "rb.go:409"), nd |-> nd]
         ELSE Then([t2 EXCEPT !.clr[t2.left[sib]] = black], LAMBDA t3 :
              Then(rotateRight(t3, t3.parent[nd]), LAMBDA t4 :
              [t |-> t4, nd |-> t4.root]))))

\* Lines 352-359: a red sibling is recoloured and rotated above nd.  The
\* result is the tree and the sibling to go on with.
fixDeleteRedSibLeft(t, nd) ==
    LET par == t.parent[nd]
        sib == t.right[par]
    IN  IF color(t, sib) = red
        THEN Then([t EXCEPT !.clr[sib] = black, !.clr[par] = red], LAMBDA t1 :
             Then(rotateLeft(t1, t1.parent[nd]), LAMBDA t2 :
             [t |-> t2, sib |-> t2.right[t2.parent[nd]]]))
        ELSE [t |-> t, sib |-> sib]

\* Lines 384-391, the mirror image.
fixDeleteRedSibRight(t, nd) ==
    LET par == t.parent[nd]
        sib == t.left[par]
    IN  IF color(t, sib) = red
        THEN Then([t EXCEPT !.clr[sib] = black, !.clr[par] = red], LAMBDA t1 :
             Then(rotateRight(t1, t1.parent[nd]), LAMBDA t2 :
             [t |-> t2, sib |-> t2.left[t2.parent[nd]]]))
        ELSE [t |-> t, sib |-> sib]

\* Lines 367-373: the far child is black, so the near child is red.
fixDeleteNearLeft(t, nd, sib) ==
    IF color(t, t.right[sib]) = black
    THEN Then([t EXCEPT !.clr[t.left[sib]] = black], LAMBDA t1 :
         Then([t1 EXCEPT !.clr[sib] = red], LAMBDA t2 :
         Then(rotateRight(t2, sib), LAMBDA t3 :
         [t |-> t3, sib |-> t3.right[t3.parent[nd]]])))
    ELSE [t |-> t, sib |-> sib]

\* Lines 399-405.  Line 402 calls rotateRight(sib), as line 370 does.
fixDeleteNearRight(t, nd, sib) ==
    IF color(t, t.left[sib]) = black
    THEN Then([t EXCEPT !.clr[t.right[sib]] = black], LAMBDA t1 :
         Then([t1 EXCEPT !.clr[sib] = red], LAMBDA t2 :
         Then(rotateRight(t2, sib), LAMBDA t3 :
         [t |-> t3, sib |-> t3.left[t3.parent[nd]]])))
    ELSE [t |-> t, sib |-> sib]

\* Lines 350-380: nd == nd.parent.left.
fixDeleteLeft(t, nd) ==
    Then(fixDeleteRedSibLeft(t, nd), LAMBDA a :
    IF a.sib = Nil THEN [t |-> Panic(a.t, "rb.go:363"), nd |-> nd]
    ELSE IF /\ color(a.t, a.t.left[a.sib]) = black
            /\ color(a.t, a.t.right[a.sib]) = black
    THEN [t |-> [a.t EXCEPT !.clr[a.sib] = red], nd |-> a.t.parent[nd]]
    ELSE Then(fixDeleteNearLeft(a.t, nd, a.sib), LAMBDA b :
         fixDeleteFarLeft(b.t, nd, b.sib)))

\* Lines 382-412: the other branch.
fixDeleteRight(t, nd) ==
    Then(fixDeleteRedSibRight(t, nd), LAMBDA a :
    IF a.sib = Nil THEN [t |-> Panic(a.t, "rb.go:395"), nd |-> nd]
    ELSE IF /\ color(a.t, a.t.left[a.sib]) = black
            /\ color(a.t, a.t.right[a.sib]) = black
    THEN [t |-> [a.t EXCEPT !.clr[a.sib] = red], nd |-> a.t.parent[nd]]
    ELSE Then(fixDeleteNearRight(a.t, nd, a.sib), LAMBDA b :
         fixDeleteFarRight(b.t, nd, b.sib)))

\* One iteration of the loop of fixDelete, entered with nd != rb.root and
\* nd.color() == black; nd may be nil, and line 349 reads nd.parent.left.
fixDeleteStep(t, nd) ==
    IF nd = Nil THEN [t |-> Panic(t, "rb.go:349"), nd |-> nd]
    ELSE IF t.parent[nd] = Nil THEN [t |-> Panic(t, "rb.go:349"), nd |-> nd]
    ELSE IF nd = t.left[t.parent[nd]] THEN fixDeleteLeft(t, nd)
    ELSE fixDeleteRight(t, nd)

\* for nd != rb.root && nd.color() == black { ... }
RECURSIVE fixDeleteLoop(_, _)
fixDeleteLoop(t, nd) ==
    IF Panicked(t) THEN t
    ELSE IF nd # t.root /\ color(t, nd) = black
         THEN Then(fixDeleteStep(t, nd), LAMBDA s : fixDeleteLoop(s.t, s.nd))
         ELSE t

fixDelete(t, nd) ==
    Then(fixDeleteLoop(t, nd), LAMBDA t1 :
    IF Panicked(t1) THEN t1 ELSE blackenRoot(t1, "rb.go:416"))

\* The splice without sub.right.parent = sub (line 177 missing).
deleteSpliceSub_NoParent(t, nd, sub) ==
    IF t.parent[sub] # nd
    THEN Then(replace(t, sub, t.right[sub]), LAMBDA u1 :
         [u1 EXCEPT !.right[sub] = u1.right[nd]])
    ELSE t

\* Lines 170-178: sub is not nd's right child; it is replaced by its right
\* child and takes nd's right subtree.
deleteSpliceSub(t, nd, sub) ==
    IF t.parent[sub] # nd
    THEN Then(replace(t, sub, t.right[sub]), LAMBDA u1 :
         Then([u1 EXCEPT !.right[sub] = u1.right[nd]], LAMBDA u2 :
         [u2 EXCEPT !.parent[u2.right[sub]] = sub]))
    ELSE t

\* The two-children branch without sub.clr = nd.clr (line 185 missing).
deleteTwoChildren_KeepColour(t, nd, sub) ==
    Then(deleteSpliceSub(t, nd, sub), LAMBDA tA :
    Then(replace(tA, nd, sub), LAMBDA tB :
    Then([tB EXCEPT !.left[sub] = tB.left[nd]], LAMBDA tC :
    IF tC.left[sub] # Nil
    THEN [tC EXCEPT !.parent[tC.left[sub]] = sub] ELSE tC)))

\* Lines 166-185 of Delete: nd has two children and sub = nd.right.getMin().
deleteTwoChildren(t, nd, sub) ==
    Then(deleteSpliceSub(t, nd, sub), LAMBDA tA :
    Then(replace(tA, nd, sub), LAMBDA tB :
    Then([tB EXCEPT !.left[sub] = tB.left[nd]], LAMBDA tC :
    Then(IF tC.left[sub] # Nil
         THEN [tC EXCEPT !.parent[tC.left[sub]] = sub] ELSE tC, LAMBDA tD :
    [tD EXCEPT !.clr[sub] = tD.clr[nd]]))))

\* Lines 153-190: nd was found.  ogColor and ndToFix are read before any
\* link changes, as in the code.
\* The local variables of Delete once set (lines 155-168): whether nd has
\* two children, its substitute, the colour removed, the node to fix.
deleteTwo(t, nd) == t.left[nd] # Nil /\ t.right[nd] # Nil

deleteSub(t, nd) == IF deleteTwo(t, nd) THEN getMin(t, t.right[nd]) ELSE Nil

deleteOgColor(t, nd) ==
    IF deleteTwo(t, nd) THEN t.clr[deleteSub(t, nd)] ELSE t.clr[nd]

deleteNdToFix(t, nd) ==
    IF t.left[nd] = Nil THEN t.right[nd]
    ELSE IF t.right[nd] = Nil THEN t.left[nd]
    ELSE t.right[deleteSub(t, nd)]

\* Delete without rb.len-- (line 153 missing).
deleteNode_NoLen(t, nd) ==
    LET two     == deleteTwo(t, nd)
        sub     == deleteSub(t, nd)
        ogColor == deleteOgColor(t, nd)
        ndToFix == deleteNdToFix(t, nd)
    IN  Then(IF two THEN deleteTwoChildren(t, nd, sub)
             ELSE replace(t, nd, ndToFix), LAMBDA t1 :
        IF ogColor = black THEN fixDelete(t1, ndToFix) ELSE t1)

deleteNode(t, nd) ==
    LET two     == deleteTwo(t, nd)
        sub     == deleteSub(t, nd)
        ogColor == deleteOgColor(t, nd)
        ndToFix == deleteNdToFix(t, nd)
    IN  Then([t EXCEPT !.len = @ - 1], LAMBDA t0 :
        Then(IF two THEN deleteTwoChildren(t0, nd, sub)
             ELSE replace(t0, nd, ndToFix), LAMBDA t1 :
        IF ogColor = black THEN fixDelete(t1, ndToFix) ELSE t1))

\* Delete that decrements len before it looks the value up.
DeleteOp_LenFirst(t, val) ==
    LET nd == findNode(t, val) IN
    IF nd = Nil THEN [t |-> [t EXCEPT !.len = @ - 1], err |-> ErrValueDoesNotExist]
    ELSE Then(deleteNode(t, nd), LAMBDA t2 :
         [t |-> t2, err |-> IF Panicked(t2) THEN "panic" ELSE "nil"])

\* Delete: the tree afterwards and the error returned ("nil" is success).
DeleteOp(t, val) ==
    LET nd == findNode(t, val) IN
    IF nd = Nil THEN [t |-> t, err |-> ErrValueDoesNotExist]
    ELSE Then(deleteNode(t, nd), LAMBDA t2 :
         [t |-> t2, err |-> IF Panicked(t2) THEN "panic" ELSE "nil"])

-----------------------------------------------------------------------------
(* Exists and GetValues *)

ExistsOp(t, val) == findNode(t, val) # Nil

\* The inner loop of GetValues: the rightmost node of nd's left subtree,
\* stopping at a backlink to nd.
RECURSIVE morrisPre(_, _, _)
morrisPre(t, nd, pre) ==
    IF t.right[pre] # Nil /\ t.right[pre] # nd
    THEN morrisPre(t, nd, t.right[pre]) ELSE pre

\* The visit without i++.
morrisVisit_NoAdvance(m, site) ==
    IF m.i >= Len(m.values) THEN [m EXCEPT !.t = Panic(m.t, site)]
    ELSE [m EXCEPT !.values[m.i + 1] = m.t.value[m.nd], !.nd = m.t.right[m.nd]]

\* values[i] = nd.value; i++; nd = nd.right (lines 125-127 and 133-135).
\* values has len slots: an index i >= len is an index-out-of-range panic.
\* i counts from 0 as in the code.
morrisVisit(m, site) ==
    IF m.i >= Len(m.values) THEN [m EXCEPT !.t = Panic(m.t, site)]
    ELSE [m EXCEPT !.values[m.i + 1] = m.t.value[m.nd], !.i = m.i + 1,
                   !.nd = m.t.right[m.nd]]

\* The iteration that visits nd and leaves the backlink in place (line 129
\* missing).
morrisStep_KeepBacklink(m) ==
    IF m.t.left[m.nd] # Nil
    THEN LET pre == morrisPre(m.t, m.nd, m.t.left[m.nd]) IN
         IF m.t.right[pre] = Nil
         THEN [m EXCEPT !.t.right[pre] = m.nd, !.nd = m.t.left[m.nd]]
         ELSE morrisVisit(m, "rb.go:125")
    ELSE morrisVisit(m, "rb.go:133")

\* One iteration of the outer loop of GetValues, entered with nd != nil.
morrisStep(m) ==
    IF m.t.left[m.nd] # Nil
    THEN LET pre == morrisPre(m.t, m.nd, m.t.left[m.nd]) IN
         IF m.t.right[pre] = Nil
         THEN [m EXCEPT !.t.right[pre] = m.nd, !.nd = m.t.left[m.nd]]
         ELSE Then(morrisVisit(m, "rb.go:125"), LAMBDA m1 :
              IF Panicked(m1.t) THEN m1 ELSE [m1 EXCEPT !.t.right[pre] = Nil])
    ELSE morrisVisit(m, "rb.go:133")

\* for nd != nil { ... }
RECURSIVE morris(_)
morris(m) ==
    IF Panicked(m.t) \/ m.nd = Nil THEN m
    ELSE Then(morrisStep(m), LAMBDA m1 : morris(m1))

\* GetValues: the tree afterwards and the slice returned.
GetValuesOp(t) ==
    IF t.len < 0
    THEN [t |-> Panic(t, "rb.go:101"), nd |-> Nil, values |-> <<>>, i |-> 0]
    ELSE morris([t |-> t, nd |-> t.root, values |-> [k \in 1..t.len |-> 0], i |-> 0])

-----------------------------------------------------------------------------
(* Memory.  A node is an address: the program never orders, prints or      *)
(* stores addresses outside the links, so two heaps that differ by a        *)
(* renaming of addresses are the same program state.  After a method        *)
(* returns, the nodes no link reaches are garbage, and the live ones are    *)
(* renamed to their positions in the pre-order walk from the root.  A heap  *)
(* whose links do not form a tree over its live nodes is left as it is.     *)

RECURSIVE preorder(_, _, _)
preorder(t, nd, fuel) ==
    IF nd = Nil \/ fuel = 0 THEN <<>>
    ELSE <<nd>> \o preorder(t, t.left[nd], fuel - 1)
                \o preorder(t, t.right[nd], fuel - 1)

Walk(t) == preorder(t, t.root, MaxNodes)

Range(s) == {s[k] : k \in 1..Len(s)}

\* The walk s meets no node twice and no link of a node it meets leaves it.
Closed(t, s) ==
    /\ \A i, j \in 1..Len(s) : s[i] = s[j] => i = j
    /\ \A n \in Range(s) :
         /\ t.left[n] \in Range(s) \cup {Nil}
         /\ t.right[n] \in Range(s) \cup {Nil}
         /\ t.parent[n] \in Range(s) \cup {Nil}

\* The live node renamed to k, for a walk s.
renamed(t, s) ==
    LET to(n) == IF n = Nil THEN Nil ELSE CHOOSE k \in 1..Len(s) : s[k] = n
        live(k) == k <= Len(s)
    IN  [root   |-> to(t.root),
         len    |-> t.len,
         nodes  |-> 1..Len(s),
         left   |-> [k \in Nodes |-> IF live(k) THEN to(t.left[s[k]]) ELSE Nil],
         right  |-> [k \in Nodes |-> IF live(k) THEN to(t.right[s[k]]) ELSE Nil],
         parent |-> [k \in Nodes |-> IF live(k) THEN to(t.parent[s[k]]) ELSE Nil],
         clr    |-> [k \in Nodes |-> IF live(k) THEN t.clr[s[k]] ELSE black],
         value  |-> [k \in Nodes |-> IF live(k) THEN t.value[s[k]] ELSE 0],
         panic  |-> t.panic]

collect(t) ==
    IF Panicked(t) THEN t
    ELSE Then(Walk(t), LAMBDA s : IF Closed(t, s) THEN renamed(t, s) ELSE t)

-----------------------------------------------------------------------------
(* The program: a client calling the public methods one after another.  A     *)
(* panic is not recovered: the program ends there.                            *)

Result(status, found, values) ==
    [status |-> status, found |-> found, values |-> values]

\* The local variables of Delete(val) on t as lines 148-168 set them: whether
\* nd was found, the colour removed (ogColor), whether nd has two children,
\* and whether its substitute is spliced out of a deeper position
\* (sub.parent != nd).  NoLocals stands for a call that is not a Delete.
NoLocals == [found |-> FALSE, ogColor |-> black, two |-> FALSE, spliced |-> FALSE]

deleteLocals(t, val) ==
    LET nd == findNode(t, val) IN
    IF nd = Nil THEN NoLocals
    ELSE [found   |-> TRUE,
          ogColor |-> deleteOgColor(t, nd),
          two     |-> deleteTwo(t, nd),
          spliced |-> deleteTwo(t, nd) /\ t.parent[deleteSub(t, nd)] # nd]

Init ==
    /\ rb = NewRBTree
    /\ op = "NewRBTree"
    /\ arg = 0
    /\ ret = Result("ok", FALSE, <<>>)
    /\ ref = [v \in Vals |-> 0]
    /\ del = NoLocals
    /\ cur = Nil

\* A call of Insert on a tree of fewer than bound nodes.
InsertUpTo(bound) ==
    /\ ~Panicked(rb)
    /\ Cardinality(rb.nodes) < bound
    /\ \E v \in Vals :
         /\ rb' = collect(InsertOp(rb, v))
         /\ op' = "Insert"
         /\ arg' = v
         /\ ret' = Result(IF Panicked(rb') THEN "panic" ELSE "ok", FALSE, <<>>)
         /\ ref' = [ref EXCEPT ![v] = @ + 1]
         /\ del' = NoLocals
         /\ cur' = Nil

Insert == InsertUpTo(MaxLive)

InsertDeep == InsertUpTo(MaxNodes)

Delete ==
    /\ ~Panicked(rb)
    /\ \E v \in Vals :
         \E r \in {DeleteOp(rb, v)} :
         /\ rb' = collect(r.t)
         /\ op' = "Delete"
         /\ arg' = v
         /\ ret' = Result(r.err, FALSE, <<>>)
         /\ ref' = IF r.err = "nil" THEN [ref EXCEPT ![v] = @ - 1] ELSE ref
         /\ del' = deleteLocals(rb, v)
         /\ cur' = Nil

Exists ==
    /\ ~Panicked(rb)
    /\ \E v \in Vals :
         /\ op' = "Exists"
         /\ arg' = v
         /\ ret' = Result("ok", ExistsOp(rb, v), <<>>)
         /\ del' = NoLocals
         /\ cur' = Nil
         /\ UNCHANGED <<rb, ref>>

GetValues ==
    /\ ~Panicked(rb)
    /\ \E r \in {GetValuesOp(rb)} :
         /\ rb' = r.t
         /\ op' = "GetValues"
         /\ arg' = 0
         /\ ret' = Result(IF Panicked(r.t) THEN "panic" ELSE "ok", FALSE, r.values)
         /\ del' = NoLocals
         /\ cur' = Nil
         /\ UNCHANGED ref

Next == Insert \/ Delete \/ Exists \/ GetValues

Spec == Init /\ [][Next]_vars

\* The same client restricted to Insert and the two reads: the trees that
\* Inserts alone reach.
NextInsert == InsertDeep \/ Exists \/ GetValues

SpecInsert == Init /\ [][NextInsert]_vars

\* The rotations called on their own, on any node (or nil) of a tree that
\* Inserts built and earlier rotations reshaped.  Inserts stop at the first
\* rotation: insert-fixup is written for the trees that Insert leaves.  A
\* rotation frees no node, and every node keeps its identity across it.
InsertRot ==
    /\ op \in {"NewRBTree", "Insert"}
    /\ InsertUpTo(MaxRot)

RotateLeft ==
    /\ ~Panicked(rb)
    /\ \E n \in Range(Walk(rb)) \cup {Nil} :
         /\ rb' = rotateLeft(rb, n)
         /\ op' = "rotateLeft"
         /\ arg' = n
         /\ ret' = Result("ok", FALSE, <<>>)
         /\ del' = NoLocals
         /\ cur' = Nil
         /\ UNCHANGED ref

RotateRight ==
    /\ ~Panicked(rb)
    /\ \E n \in Range(Walk(rb)) \cup {Nil} :
         /\ rb' = rotateRight(rb, n)
         /\ op' = "rotateRight"
         /\ arg' = n
         /\ ret' = Result("ok", FALSE, <<>>)
         /\ del' = NoLocals
         /\ cur' = Nil
         /\ UNCHANGED ref

\* Insert, one step of the loop of fixInsert at a time.  The call: lines
\* 53-86 and the test of line 278; a first node returns at once (line 76).
InsertCall ==
    /\ ~Panicked(rb)
    /\ cur = Nil
    /\ Cardinality(rb.nodes) < MaxNodes
    /\ \E v \in Vals :
         \E r \in {insertLink(rb, v)} :
         /\ rb' = r.t
         /\ cur' = r.nd
         /\ op' = "Insert"
         /\ arg' = v
         /\ ret' = Result(IF r.nd = Nil THEN "ok" ELSE "running", FALSE, <<>>)
         /\ ref' = [ref EXCEPT ![v] = @ + 1]
         /\ del' = NoLocals

\* One iteration of the loop (lines 281-338): nd.parent is red.
FixInsertIter ==
    /\ ~Panicked(rb)
    /\ cur # Nil
    /\ color(rb, rb.parent[cur]) = red
    /\ \E s \in {fixInsertStep(rb, cur)} :
         /\ rb' = s.t
         /\ cur' = s.nd
         /\ ret' = Result(IF Panicked(s.t) THEN "panic" ELSE "running", FALSE, <<>>)
    /\ UNCHANGED <<op, arg, ref, del>>

\* The loop ends (nd.parent is not red), line 341 runs and Insert returns.
FixInsertExit ==
    /\ ~Panicked(rb)
    /\ cur # Nil
    /\ color(rb, rb.parent[cur]) # red
    /\ rb' = collect(blackenRoot(rb, "rb.go:341"))
    /\ cur' = Nil
    /\ ret' = Result(IF Panicked(rb') THEN "panic" ELSE "ok", FALSE, <<>>)
    /\ UNCHANGED <<op, arg, ref, del>>

NextFixInsert == InsertCall \/ FixInsertIter \/ FixInsertExit

\* The program is sequential and nothing else runs: a loop iteration or a
\* return that can be taken is taken.
SpecFixInsert ==
    /\ Init
    /\ [][NextFixInsert]_vars
    /\ WF_vars(FixInsertIter)
    /\ WF_vars(FixInsertExit)

NextRotate == InsertRot \/ RotateLeft \/ RotateRight

SpecRotate == Init /\ [][NextRotate]_vars

-----------------------------------------------------------------------------
(* The red-black properties of a tree (src/bst/rb.go, lines 30-38) *)

Live(t) == Range(Walk(t))

\* Property 2: the root is black (an empty tree has no root).
RootBlack(t) == t.root = Nil \/ t.clr[t.root] = black

\* Property 4: a red node has no red child.
NoRedRed(t) ==
    \A n \in Live(t) :
        t.clr[n] = red => color(t, t.left[n]) = black /\ color(t, t.right[n]) = black

\* The number of black nodes on every path from nd down to an absent
\* position, nd included; -1 when two such paths differ.
RECURSIVE blackHeight(_, _, _)
blackHeight(t, nd, fuel) ==
    IF nd = Nil \/ fuel = 0 THEN 0
    ELSE LET l == blackHeight(t, t.left[nd], fuel - 1)
             r == blackHeight(t, t.right[nd], fuel - 1)
         IN  IF l < 0 \/ r < 0 \/ l # r THEN -1
             ELSE l + (IF t.clr[nd] = black THEN 1 ELSE 0)

\* Property 5, for every node.
BlackBalanced(t) == blackHeight(t, t.root, MaxNodes) >= 0

RedBlack(t) == RootBlack(t) /\ NoRedRed(t) /\ BlackBalanced(t)

\* The values met by the in-order walk from nd.
RECURSIVE inorder(_, _, _)
inorder(t, nd, fuel) ==
    IF nd = Nil \/ fuel = 0 THEN <<>>
    ELSE inorder(t, t.left[nd], fuel - 1) \o <<t.value[nd]>>
         \o inorder(t, t.right[nd], fuel - 1)

InOrder(t) == inorder(t, t.root, MaxNodes)

\* How many times v occurs in the sequence s.
Count(s, v) == Cardinality({k \in 1..Len(s) : s[k] = v})

\* Some node of the tree holds v.
Stored(t, v) == \E n \in Live(t) : t.value[n] = v

\* The reference multiset as a sorted sequence: c[v] copies of each v,
\* smallest value first.
RECURSIVE refSeq(_, _)
refSeq(c, v) ==
    IF v > MaxVal THEN <<>>
    ELSE [k \in 1..c[v] |-> v] \o refSeq(c, v + 1)

RefSeq(c) == refSeq(c, 1)

-----------------------------------------------------------------------------
(* Claims *)

\* C1: starting from the empty tree, after each Insert of any sequence of
\* Inserts (duplicates included) the tree satisfies the red-black properties:
\* black root, no red node with a red child, equal black-height on all paths.
C1_InsertKeepsRedBlack ==
    (op = "Insert" /\ ret.status = "ok") => RedBlack(rb)

\* A tree of seven nodes or more, holding a duplicate, on which Insert has
\* just returned.
C1_Witness ==
    /\ op = "Insert" /\ ret.status = "ok"
    /\ rb.len >= 7
    /\ ref[arg] >= 2
    /\ RedBlack(rb)

\* C2: Delete of a stored value from a tree that satisfies the red-black
\* properties succeeds and leaves a tree that satisfies them again (black
\* root or empty tree, no red node with a red child, equal black-height).
C2_DeleteKeepsRedBlack ==
    [][(op' = "Delete" /\ RedBlack(rb) /\ Stored(rb, arg'))
         => (ret'.status = "nil" /\ RedBlack(rb'))]_vars

\* C3: Delete of a stored value v returns nil, decreases Len() by exactly 1,
\* and GetValues() afterwards holds the values of before with exactly one
\* occurrence of v removed.
C3_DeleteRemovesOne ==
    [][(op' = "Delete" /\ Stored(rb, arg'))
         => /\ ret'.status = "nil"
            /\ rb'.len = rb.len - 1
            /\ \A v \in Vals :
                 Count(GetValuesOp(rb').values, v)
                   = Count(GetValuesOp(rb).values, v) - (IF v = arg' THEN 1 ELSE 0)]_vars

\* C4: Delete of a value that no node holds returns the not-found error and
\* changes nothing: root, links, colours, values and Len() are as before.
C4_DeleteAbsentChangesNothing ==
    [][(op' = "Delete" /\ ~Stored(rb, arg'))
         => (ret'.status = ErrValueDoesNotExist /\ rb' = rb)]_vars

\* Delete has just reported not-found on a tree of three nodes or more.
C4_Witness ==
    /\ op = "Delete" /\ ret.status = ErrValueDoesNotExist
    /\ ~Stored(rb, arg)
    /\ rb.len >= 3

\* C5: after any Inserts and Deletes that returned, GetValues() returns the
\* stored multiset in non-decreasing order: the sorted reference multiset
\* (plus v on Insert(v), minus one v on a successful Delete(v)), duplicates
\* listed as often as they are stored.
C5_GetValuesIsSortedMultiset ==
    op = "GetValues" => (ret.status = "ok" /\ ret.values = RefSeq(ref))

\* GetValues has returned four values or more with a duplicate among them,
\* on a tree that a Delete has left unbalanced.
C5_Witness ==
    /\ op = "GetValues" /\ ret.status = "ok"
    /\ Len(ret.values) >= 4
    /\ \E v \in Vals : Count(ret.values, v) >= 2
    /\ ~RedBlack(rb)

\* C6: Exists(v) is true exactly when some node stores v; in particular it
\* is true right after Insert(v), duplicates in a right subtree included.
C6_ExistsIffStored ==
    /\ op = "Exists" => (ret.found <=> Stored(rb, arg))
    /\ (op = "Insert" /\ ret.status = "ok") => ExistsOp(rb, arg)
    /\ ~Panicked(rb) => \A v \in Vals : ExistsOp(rb, v) <=> Stored(rb, v)

\* Exists has found a value that a node and its right child both hold.
C6_Witness ==
    /\ op = "Exists" /\ ret.found
    /\ \E n \in Live(rb) :
         /\ rb.value[n] = arg
         /\ rb.right[n] # Nil
         /\ rb.value[rb.right[n]] = arg

\* C7: on a tree built by Inserts, Insert(v) returns without fault for every
\* v, equal to stored values or not, adds exactly one node, which holds v,
\* and increases Len() by exactly 1.
C7_InsertIsTotal ==
    [][op' = "Insert"
         => /\ ret'.status = "ok"
            /\ rb'.len = rb.len + 1
            /\ Cardinality(Live(rb')) = Cardinality(Live(rb)) + 1
            /\ \A v \in Vals :
                 Count(InOrder(rb'), v)
                   = Count(InOrder(rb), v) + (IF v = arg' THEN 1 ELSE 0)]_vars

\* Insert has returned after adding a third copy of a value to a tree that
\* then holds six nodes or more.
C7_Witness ==
    /\ op = "Insert" /\ ret.status = "ok"
    /\ Count(InOrder(rb), arg) >= 3
    /\ Cardinality(Live(rb)) >= 6

\* C8: a tree can be drained.  Every Delete of a stored value returns
\* success, and the Delete of the only value of a one-node tree leaves the
\* empty tree: root absent, Len() = 0, GetValues() empty.
C8_TreeCanBeDrained ==
    [][(op' = "Delete" /\ Stored(rb, arg'))
         => /\ ret'.status = "nil"
            /\ rb.len = 1 => /\ rb'.root = Nil
                             /\ rb'.len = 0
                             /\ GetValuesOp(rb').values = <<>>]_vars

\* C9: GetValues() restores every link it wrote: root, links, colours,
\* values and Len() are as before the call; two GetValues() calls, or two
\* Exists calls of one value, with nothing in between return the same.
C9_GetValuesRestoresTree ==
    [][/\ op' = "GetValues" => (ret'.status = "ok" /\ rb' = rb)
       /\ (op = "GetValues" /\ op' = "GetValues") => ret' = ret
       /\ (op = "Exists" /\ op' = "Exists" /\ arg' = arg) => ret' = ret]_vars

\* GetValues has returned on a tree where some node's left child has a right
\* child: the inner loop walked to a predecessor and a backlink was written
\* there and removed.
C9_Witness ==
    /\ op = "GetValues" /\ ret.status = "ok"
    /\ \E n \in Live(rb) :
         /\ rb.left[n] # Nil
         /\ rb.right[rb.left[n]] # Nil

\* Delete(v) on t removes a black node and promotes an absent child: the
\* colour removed is black and the node to fix is nil.
BlackAbsentCase(t, v) ==
    LET nd == findNode(t, v) IN
    /\ nd # Nil
    /\ deleteOgColor(t, nd) = black
    /\ deleteNdToFix(t, nd) = Nil

\* C10: when Delete removes a black node whose promoted child is absent
\* from a red-black tree of two nodes or more, delete-fixup runs to
\* completion without reading a field of the absent node, and Delete
\* returns success.
C10_FixDeleteAcceptsAbsentNode ==
    [][(op' = "Delete" /\ rb.len >= 2 /\ RedBlack(rb) /\ BlackAbsentCase(rb, arg'))
         => ret'.status = "nil"]_vars

\* Delete(v) on t removes a black node that has exactly one child, which is
\* red: the child is promoted into its place and handed to delete-fixup.
PromotedRedCase(t, v) ==
    LET nd == findNode(t, v) IN
    /\ nd # Nil
    /\ (t.left[nd] = Nil) # (t.right[nd] = Nil)
    /\ t.clr[nd] = black
    /\ color(t, deleteNdToFix(t, nd)) = red

\* C11: delete-fixup leaves the node on which its loop stopped black.  When
\* Delete removes a black node with exactly one child, a red one, from a
\* red-black tree, Delete returns success and the promoted child is black on
\* return, also when it is not the root.
C11_PromotedChildIsBlack ==
    [][(op' = "Delete" /\ RedBlack(rb) /\ PromotedRedCase(rb, arg'))
         => /\ ret'.status = "nil"
            /\ color(DeleteOp(rb, arg').t, deleteNdToFix(rb, findNode(rb, arg'))) = black]_vars

\* C12: whenever the body of the delete-fixup loop inspects the colours of
\* the sibling's children (lines 363 and 395, after the red-sibling step),
\* the sibling is a present node: no Delete, on any tree that Inserts and
\* Deletes reach, stops there on an absent sibling.
C12_SiblingIsPresent ==
    rb.panic \notin {"rb.go:363", "rb.go:395"}

\* The nodes of the subtree of t rooted at nd (none when nd is nil).
Subtree(t, nd) == Range(preorder(t, nd, MaxNodes))

\* m lies below n on its left, on its right.
InLeft(t, m, n) == m \in Subtree(t, t.left[n])

InRight(t, m, n) == m \in Subtree(t, t.right[n])

\* u is t with nd taken out and nothing else moved: every other node keeps
\* its colour and its place relative to every other node, except that sub,
\* when nd had two children, has nd's colour and stands where nd stood.
RemovedInPlace(t, u, nd, sub) ==
    LET rest   == Live(t) \ {nd}
        was(n) == IF n = sub THEN nd ELSE n
    IN  /\ Live(u) = rest
        /\ \A n \in rest : u.clr[n] = t.clr[was(n)] /\ u.value[n] = t.value[n]
        /\ \A m, n \in rest :
             m # n => /\ InLeft(u, m, n) <=> InLeft(t, was(m), was(n))
                      /\ InRight(u, m, n) <=> InRight(t, was(m), was(n))

\* C13: when the colour removed is red (a red leaf, or a two-children Delete
\* whose in-order successor is red) Delete returns success and runs no
\* fix-up: no rotation, no colour change except that the successor takes the
\* deleted node's colour and position; a tree that satisfied the red-black
\* properties before satisfies them after.
C13_RedRemovalNeedsNoFixup ==
    [][(op' = "Delete" /\ del'.found /\ del'.ogColor = red)
         => \A nd \in {findNode(rb, arg')} : \A u \in {deleteNode(rb, nd)} :
              /\ ret'.status = "nil"
              /\ RemovedInPlace(rb, u, nd, deleteSub(rb, nd))
              /\ rb' = collect(u)
              /\ RedBlack(rb) => RedBlack(rb')]_vars

\* Delete has returned after removing a node with two children whose
\* successor was red, and the tree satisfies the red-black properties.
C13_Witness ==
    /\ op = "Delete" /\ ret.status = "nil"
    /\ del.found /\ del.ogColor = red /\ del.two
    /\ rb.len >= 3
    /\ RedBlack(rb)

\* C14: rotateLeft(n) and rotateRight(n) applied to the root n with the
\* relevant child present make that child the root, and the new root is
\* black when the rotation returns, whatever its colour was before.
C14_RotationBlackensNewRoot ==
    [][/\ (op' = "rotateLeft" /\ arg' # Nil /\ rb.parent[arg'] = Nil
                              /\ rb.right[arg'] # Nil)
          => /\ rb'.root = rb.right[arg']
             /\ color(rb', rb'.root) = black
       /\ (op' = "rotateRight" /\ arg' # Nil /\ rb.parent[arg'] = Nil
                               /\ rb.left[arg'] # Nil)
          => /\ rb'.root = rb.left[arg']
             /\ color(rb', rb'.root) = black]_vars

\* Structural well-formedness: the root has no parent; a present child's
\* parent is the node that holds it; every node but the root is held by
\* exactly one child link; the walk from the root meets no node twice (no
\* cycle, no node shared).
Holders(t, n) ==
    {p \in Live(t) : t.left[p] = n} \cup {p \in Live(t) : t.right[p] = n}

WellFormed(t) ==
    /\ t.root # Nil => t.parent[t.root] = Nil
    /\ \A n \in Live(t) :
         /\ t.left[n] # Nil => t.parent[t.left[n]] = n
         /\ t.right[n] # Nil => t.parent[t.right[n]] = n
         /\ t.left[n] = Nil \/ t.left[n] # t.right[n]
         /\ n # t.root => Cardinality(Holders(t, n)) = 1
         /\ n = t.root => Holders(t, n) = {}
    /\ \A s \in {Walk(t)} : \A i, j \in 1..Len(s) : s[i] = s[j] => i = j

\* The nodes met by the in-order walk from nd.
RECURSIVE inorderNodes(_, _, _)
inorderNodes(t, nd, fuel) ==
    IF nd = Nil \/ fuel = 0 THEN <<>>
    ELSE inorderNodes(t, t.left[nd], fuel - 1) \o <<nd>>
         \o inorderNodes(t, t.right[nd], fuel - 1)

InOrderNodes(t) == inorderNodes(t, t.root, MaxNodes)

\* The links of node n.
Links(t, n) == <<t.left[n], t.right[n], t.parent[n]>>

\* u is t after a rotation at n that promotes n's child c, whose inner
\* subtree (the one handed over to n) has the root inner: same nodes in the
\* same in-order sequence, same colours, values and len; only n, c, inner
\* and n's former parent (or the root field) have other links; c stands
\* where n stood and n is its child.
Rotated(t, u, n, c, inner) ==
    /\ WellFormed(u)
    /\ InOrderNodes(u) = InOrderNodes(t)
    /\ Live(u) = Live(t)
    /\ u.clr = t.clr /\ u.value = t.value /\ u.len = t.len /\ u.nodes = t.nodes
    /\ \A m \in Nodes \ {n, c, inner, t.parent[n]} : Links(u, m) = Links(t, m)
    /\ u.root # t.root => (t.root = n /\ u.root = c)
    /\ u.parent[c] = t.parent[n]
    /\ u.parent[n] = c

\* C15: the rotations are pure shape transforms.  On a well-formed tree
\* rotateLeft(n) and rotateRight(n) keep the in-order sequence of nodes and
\* the set of nodes, change only the links of n, of the promoted child, of
\* that child's inner subtree root and of n's former parent (or the root
\* field), and change nothing at all when n or the relevant child is absent.
C15_RotationsAreShapeTransforms ==
    [][\A n \in {arg'} : \A u \in {rb'} :
         /\ (op' = "rotateLeft" /\ WellFormed(rb))
            => IF n = Nil \/ rb.right[n] = Nil
               THEN u = rb
               ELSE \A r \in {rb.right[n]} :
                      /\ Rotated(rb, u, n, r, rb.left[r])
                      /\ u.left[r] = n
         /\ (op' = "rotateRight" /\ WellFormed(rb))
            => IF n = Nil \/ rb.left[n] = Nil
               THEN u = rb
               ELSE \A l \in {rb.left[n]} :
                      /\ Rotated(rb, u, n, l, rb.right[l])
                      /\ u.right[l] = n]_vars

\* rotateLeft(n) has returned on a node n that was not the root and whose
\* right child had a left subtree: n is now the left child of the promoted
\* node, which has a parent, and n's right subtree is the one handed over.
C15_Witness ==
    /\ op = "rotateLeft" /\ arg # Nil
    /\ WellFormed(rb)
    /\ rb.parent[arg] # Nil
    /\ rb.left[rb.parent[arg]] = arg
    /\ rb.parent[rb.parent[arg]] # Nil
    /\ rb.right[arg] # Nil

\* C16: after every public operation that has returned, in any sequence of
\* Inserts and Deletes, the tree is structurally well-formed: the root has no
\* parent, the parent of every present child is the node that holds it, every
\* node but the root has exactly one holder, and the links form no cycle; the
\* two-children Delete that splices the successor out included.
C16_LinksStayWellFormed ==
    ~Panicked(rb) => WellFormed(rb)

\* Delete has returned after splicing the successor out of a deeper position
\* and putting it in the deleted node's place.
C16_Witness ==
    /\ op = "Delete" /\ ret.status = "nil"
    /\ del.found /\ del.two /\ del.spliced
    /\ WellFormed(rb)

\* C18: after every public operation that has returned, in any sequence of
\* Inserts and Deletes (Deletes that report not-found included), Len() is the
\* number of nodes reachable from the root; GetValues(), which allocates
\* Len() slots, writes exactly Len() entries, never indexes past the end and
\* leaves no slot unwritten.
C18_LenCountsNodes ==
    ~Panicked(rb)
      => /\ rb.len = Cardinality(Live(rb))
         /\ ~Panicked(GetValuesOp(rb).t)
         /\ GetValuesOp(rb).i = rb.len
         /\ Len(GetValuesOp(rb).values) = rb.len
         /\ \A k \in 1..rb.len : GetValuesOp(rb).values[k] \in Vals
         /\ op = "GetValues" => Len(ret.values) = rb.len

\* Delete has returned after removing a node with two children from a tree
\* of four nodes or more: Len() counts the nodes left, and a GetValues()
\* traversal of that tree fills exactly Len() slots.
C18_Witness ==
    /\ op = "Delete" /\ ret.status = "nil" /\ del.two
    /\ rb.len >= 3
    /\ rb.len = Cardinality(Live(rb))
    /\ GetValuesOp(rb).i = rb.len

\* C19: the two versions agree on insertion.  Run side by side on the same
\* Inserts from the empty tree, the tree of src/unnamed/part_000 and the
\* tree of src/bst/rb.go are in the same state after every Insert: same
\* shape, same colours, same Len(), hence the same Exists and GetValues
\* results.  Both start from the same empty tree, so they stay equal exactly
\* when, from every state that Inserts reach, the Insert of the one version
\* and the Insert of the other lead to the same state; GetValues has the
\* same text in both versions.
C19_VersionsAgreeOnInsert ==
    [][op' = "Insert"
         => \A val \in {arg'} : \A new \in {rb'} :
              /\ new = collect(InsertOpOld(rb, val))
              /\ \A v \in Vals : ExistsOpOld(new, v) = ExistsOp(new, v)]_vars

\* Insert has returned on a tree of five nodes or more whose root holds the
\* same value as its right child.  Insert puts an equal value to the left,
\* so the root has been replaced by a rotation, where the older version
\* colours the new root itself.
C19_Witness ==
    /\ op = "Insert" /\ ret.status = "ok"
    /\ rb.len >= 5
    /\ rb.right[rb.root] # Nil
    /\ rb.value[rb.right[rb.root]] = rb.value[rb.root]

\* The number of links from nd up to the root.
RECURSIVE depth(_, _, _)
depth(t, nd, fuel) ==
    IF nd = Nil \/ fuel = 0 \/ t.parent[nd] = Nil THEN 0
    ELSE 1 + depth(t, t.parent[nd], fuel - 1)

Depth(t, nd) == depth(t, nd, MaxNodes)

\* The uncle of nd: the sibling of its parent (nil when absent).
uncle(t, nd) ==
    LET p == t.parent[nd]
        g == t.parent[p]
    IN  IF p = t.left[g] THEN t.right[g] ELSE t.left[g]

\* An iteration of the insert-fixup loop: the loop is running before the
\* step and has not returned after it.
FixInsertIterates == cur # Nil /\ cur' # Nil /\ <<rb, cur>>' # <<rb, cur>>

\* C17: the insert-fixup loop terminates on every tree that Inserts reach.
\* An uncle-red iteration moves the current node to its grandparent, two
\* links closer to the root; an uncle-black iteration leaves the current
\* node's parent black, so it is the last; no iteration faults; and an
\* Insert that has entered the loop returns.
C17_FixInsertTerminates ==
    /\ [][FixInsertIterates
            => /\ ~Panicked(rb')
               /\ IF color(rb, uncle(rb, cur)) = red
                  THEN /\ cur' = rb.parent[rb.parent[cur]]
                       /\ Depth(rb', cur') = Depth(rb, cur) - 2
                  ELSE color(rb', rb'.parent[cur']) = black]_vars
    /\ (cur # Nil) ~> (cur = Nil /\ ret.status = "ok")

\* The loop is running on a current node that is not the node inserted (it
\* has a child: an uncle-red iteration moved it up) and whose parent is red
\* with a black uncle: the next iteration is an uncle-black one.
C17_Witness ==
    /\ cur # Nil
    /\ rb.left[cur] # Nil \/ rb.right[cur] # Nil
    /\ color(rb, rb.parent[cur]) = red
    /\ color(rb, uncle(rb, cur)) = black

=============================================================================
